---- MODULE Spec2Model ----
(***************************************************************************)
(* Model of src/src/nodes/node.ts: one Ben-Or style node per index, each   *)
(* an express server with the handlers /status, /message, /start, /stop    *)
(* and the round driver runConsensus.  A step of the model is one run to   *)
(* completion of the JavaScript event loop of one node: a handler, or the  *)
(* continuation of the driver after one of its awaits (a fetch, a poll     *)
(* delay, the delay at the end of a round).                                *)
(***************************************************************************)
EXTENDS Integers, Sequences, FiniteSets, TLC

\* ---------------------------------------------------------------- bounds
MaxRound == 2        \* rounds explored where the code itself sets no bound
MaxLost == 1         \* fetches that may fail in one run
MaxLen == 4          \* longest sequence of votes given to findMajority on its own

\* ------------------------------------------------------ program constants
ForceRound == 10     \* node.ts:169, k >= 10 forces the decision
Null == -1           \* the null of NodeState.x, NodeState.k and of findMajority
DNull == "null"      \* NodeState.decided of a faulty node
DFalse == "false"
DTrue == "true"

VARIABLES
  N, F, isFaulty, initialValue,   \* parameters of node(), fixed at construction
  horizon,                        \* last round the exploration lets a driver begin
  killed, x, decided, k,          \* NodeState
  roundMessages,                  \* per node: round -> sequence of Message
  isRunning,
  pc,                             \* where the driver of each node is suspended
  i,                              \* loop index of broadcast: the fetch in flight
  majority, newValue, pMajority,  \* locals of the current iteration of runConsensus
  launches,                       \* calls of runConsensus made by /start
  lost,                           \* fetches that have thrown so far
  fmValues, fmMinCount,           \* arguments of a call of findMajority on its own
  fmCalled, fmResult              \* whether that call was made, and what it returned

cfg == <<N, F, isFaulty, initialValue, horizon, fmValues, fmMinCount, fmCalled, fmResult>>
vars == <<N, F, isFaulty, initialValue, horizon, killed, x, decided, k,
          roundMessages, isRunning, pc, i, majority, newValue, pMajority, launches,
          lost, fmValues, fmMinCount, fmCalled, fmResult>>

Nodes == 0 .. (N - 1)
Value == {0, 1}

\* const threshold = Math.floor((N - 1) / 2)
threshold == (N - 1) \div 2

Message(t, n, kk, v) == [type |-> t, nodeId |-> n, k |-> kk, value |-> v]

\* state of node() right after construction
NodeInit(n, f, faulty, init) ==
  /\ N = n
  /\ F = f
  /\ isFaulty = faulty
  /\ initialValue = init
  /\ killed = [m \in 0 .. (n - 1) |-> FALSE]
  /\ x = [m \in 0 .. (n - 1) |-> IF faulty[m] THEN Null ELSE init[m]]
  /\ decided = [m \in 0 .. (n - 1) |-> IF faulty[m] THEN DNull ELSE DFalse]
  /\ k = [m \in 0 .. (n - 1) |-> IF faulty[m] THEN Null ELSE 1]
  /\ roundMessages = [m \in 0 .. (n - 1) |-> <<>>]
  /\ isRunning = [m \in 0 .. (n - 1) |-> FALSE]
  /\ pc = [m \in 0 .. (n - 1) |-> "idle"]
  /\ i = [m \in 0 .. (n - 1) |-> 0]
  /\ majority = [m \in 0 .. (n - 1) |-> Null]
  /\ newValue = [m \in 0 .. (n - 1) |-> Null]
  /\ pMajority = [m \in 0 .. (n - 1) |-> Null]
  /\ launches = [m \in 0 .. (n - 1) |-> 0]
  /\ lost = 0
  /\ fmValues = <<>>
  /\ fmMinCount = 1
  /\ fmCalled = FALSE
  /\ fmResult = Null

\* ------------------------------------------------------------ pure helpers

\* !state.decided is true for false and for null
Truthy(d) == d = DTrue

\* roundMessages[k] || []
Bucket(rm, kk) == IF kk \in DOMAIN rm THEN rm[kk] ELSE <<>>

\* roundMessages[message.k].push(message), creating the array when absent
Push(rm, m) ==
  IF m.k \in DOMAIN rm
    THEN [rm EXCEPT ![m.k] = Append(@, m)]
    ELSE [r \in DOMAIN rm \cup {m.k} |-> IF r = m.k THEN <<m>> ELSE rm[r]]

\* delete roundMessages[k]
Delete(rm, kk) == [r \in DOMAIN rm \ {kk} |-> rm[r]]

\* .filter((m) => m.type === msgType)
RECURSIVE FilterType(_, _)
FilterType(s, t) ==
  IF s = <<>> THEN <<>>
  ELSE IF Head(s).type = t
         THEN <<Head(s)>> \o FilterType(Tail(s), t)
         ELSE FilterType(Tail(s), t)

\* collectValues that also reads the array of the round before
collectValuesStale(rm, kk, t) ==
  LET ms == FilterType(Bucket(rm, kk - 1) \o Bucket(rm, kk), t)
  IN [j \in 1 .. Len(ms) |-> ms[j].value]

collectValues(rm, kk, t) ==
  LET ms == FilterType(Bucket(rm, kk), t)
  IN [j \in 1 .. Len(ms) |-> ms[j].value]

Count(values, v) == Cardinality({j \in 1 .. Len(values) : values[j] = v})

\* findMajority with > in place of >=
findMajorityStrict(values, minCount) ==
  IF Count(values, 0) > minCount THEN 0
  ELSE IF Count(values, 1) > minCount THEN 1
  ELSE Null

findMajority(values, minCount) ==
  IF Count(values, 0) >= minCount THEN 0
  ELSE IF Count(values, 1) >= minCount THEN 1
  ELSE Null

\* msgs.filter((m) => m.type === msgType).length
Have(rm, kk, t) == Len(FilterType(Bucket(rm, kk), t))

\* GET /status
Status(n) == IF isFaulty[n] THEN "faulty" ELSE "live"

\* /message without the test of state.decided
OnMessageAlways(RM, to, m) ==
  IF isFaulty[to] \/ killed[to]
    THEN RM
    ELSE [RM EXCEPT ![to] = Push(@, m)]

\* POST /message at node to: the store of node to afterwards
OnMessage(RM, to, m) ==
  IF isFaulty[to] \/ killed[to] \/ decided[to] = DTrue
    THEN RM
    ELSE [RM EXCEPT ![to] = Push(@, m)]

\* POST /message at node to: the body of the answer
OnMessageReply(to) ==
  IF isFaulty[to] \/ killed[to] \/ decided[to] = DTrue
    THEN "OK"
    ELSE "OK"

\* ------------------------------------------------- the driver, runConsensus

\* LoopTop without the test of state.decided
LoopTopIgnoringDecided(n) ==
  /\ IF killed[n] \/ k[n] = Null
       THEN pc' = [pc EXCEPT ![n] = "done"]
       ELSE pc' = [pc EXCEPT ![n] = "bcastR"]
  /\ i' = [i EXCEPT ![n] = 0]
  /\ majority' = [majority EXCEPT ![n] = Null]
  /\ newValue' = [newValue EXCEPT ![n] = Null]
  /\ pMajority' = [pMajority EXCEPT ![n] = Null]

\* head of the while loop, up to the first fetch of the phase-R broadcast
LoopTop(n) ==
  /\ IF Truthy(decided[n]) \/ killed[n] \/ k[n] = Null
       THEN pc' = [pc EXCEPT ![n] = "done"]
       ELSE pc' = [pc EXCEPT ![n] = "bcastR"]
  /\ i' = [i EXCEPT ![n] = 0]
  /\ majority' = [majority EXCEPT ![n] = Null]
  /\ newValue' = [newValue EXCEPT ![n] = Null]
  /\ pMajority' = [pMajority EXCEPT ![n] = Null]

\* AfterR that moves to the next round after phase R
AfterRAdvances(n, RM) ==
  LET rValues == collectValues(RM[n], k[n], "R")
      maj == findMajority(rValues, (N \div 2) + 1)
  IN /\ majority' = [majority EXCEPT ![n] = maj]
     /\ newValue' = [newValue EXCEPT ![n] = IF maj = Null THEN k[n] % 2 ELSE maj]
     /\ pc' = [pc EXCEPT ![n] = "bcastP"]
     /\ i' = [i EXCEPT ![n] = 0]
     /\ roundMessages' = RM
     /\ k' = [k EXCEPT ![n] = k[n] + 1]
     /\ UNCHANGED <<x, decided, pMajority>>

\* AfterR with a majority of N div 2 votes
AfterRWeakMajority(n, RM) ==
  LET rValues == collectValues(RM[n], k[n], "R")
      maj == findMajority(rValues, N \div 2)
  IN /\ majority' = [majority EXCEPT ![n] = maj]
     /\ newValue' = [newValue EXCEPT ![n] = IF maj = Null THEN k[n] % 2 ELSE maj]
     /\ pc' = [pc EXCEPT ![n] = "bcastP"]
     /\ i' = [i EXCEPT ![n] = 0]
     /\ roundMessages' = RM
     /\ UNCHANGED <<x, decided, k, pMajority>>

\* after the phase-R wait: majority, tie-break, first fetch of the phase-P broadcast
AfterR(n, RM) ==
  LET rValues == collectValues(RM[n], k[n], "R")
      maj == findMajority(rValues, (N \div 2) + 1)
  IN /\ majority' = [majority EXCEPT ![n] = maj]
     /\ newValue' = [newValue EXCEPT ![n] = IF maj = Null THEN k[n] % 2 ELSE maj]
     /\ pc' = [pc EXCEPT ![n] = "bcastP"]
     /\ i' = [i EXCEPT ![n] = 0]
     /\ roundMessages' = RM
     /\ UNCHANGED <<x, decided, k, pMajority>>

\* Decide without the forced decision of round 10
DecideNoForce(n, pValues, pMaj) ==
  IF F <= threshold
    THEN IF pMaj # Null
           THEN <<pMaj, DTrue>>
           ELSE <<newValue[n], decided[n]>>
    ELSE <<IF Len(pValues) > 0 THEN pValues[1] ELSE x[n], DFalse>>

\* Decide without the test F <= threshold
DecideNoGate(n, pValues, pMaj) ==
  IF pMaj # Null
    THEN <<pMaj, DTrue>>
    ELSE <<newValue[n], IF k[n] >= ForceRound THEN DTrue ELSE decided[n]>>

\* Decide that keeps x when there is no P-majority
DecideKeepX(n, pValues, pMaj) ==
  IF F <= threshold
    THEN IF pMaj # Null
           THEN <<pMaj, DTrue>>
           ELSE <<x[n], IF k[n] >= ForceRound THEN DTrue ELSE decided[n]>>
    ELSE <<IF Len(pValues) > 0 THEN pValues[1] ELSE x[n], DFalse>>

\* Decide that forces the decision one round later
DecideForceLate(n, pValues, pMaj) ==
  IF F <= threshold
    THEN IF pMaj # Null
           THEN <<pMaj, DTrue>>
           ELSE <<newValue[n], IF k[n] > ForceRound THEN DTrue ELSE decided[n]>>
    ELSE <<IF Len(pValues) > 0 THEN pValues[1] ELSE x[n], DFalse>>

\* the decision rule: the new <<x, decided>>
Decide(n, pValues, pMaj) ==
  IF F <= threshold
    THEN IF pMaj # Null
           THEN <<pMaj, DTrue>>
           ELSE <<newValue[n], IF k[n] >= ForceRound THEN DTrue ELSE decided[n]>>
    ELSE <<IF Len(pValues) > 0 THEN pValues[1] ELSE x[n], DFalse>>

\* AfterP that stays in the same round
AfterPSameRound(n, RM) ==
  LET pValues == collectValues(RM[n], k[n], "P")
      pMaj == findMajority(pValues, (N \div 2) + 1)
      d == Decide(n, pValues, pMaj)
  IN /\ pMajority' = [pMajority EXCEPT ![n] = pMaj]
     /\ x' = [x EXCEPT ![n] = d[1]]
     /\ decided' = [decided EXCEPT ![n] = d[2]]
     /\ roundMessages' = [RM EXCEPT ![n] = Delete(@, k[n])]
     /\ pc' = [pc EXCEPT ![n] = "sleep"]
     /\ i' = [i EXCEPT ![n] = 0]
     /\ UNCHANGED <<k, majority, newValue>>

\* after the phase-P wait: decision, next round, eviction, delay(5)
AfterP(n, RM) ==
  LET pValues == collectValues(RM[n], k[n], "P")
      pMaj == findMajority(pValues, (N \div 2) + 1)
      d == Decide(n, pValues, pMaj)
  IN /\ pMajority' = [pMajority EXCEPT ![n] = pMaj]
     /\ x' = [x EXCEPT ![n] = d[1]]
     /\ decided' = [decided EXCEPT ![n] = d[2]]
     /\ k' = [k EXCEPT ![n] = k[n] + 1]
     /\ roundMessages' = [RM EXCEPT ![n] = Delete(@, k[n])]
     /\ pc' = [pc EXCEPT ![n] = "sleep"]
     /\ i' = [i EXCEPT ![n] = 0]
     /\ UNCHANGED <<majority, newValue>>

\* Look without the tests of state.killed
LookIgnoringKill(n, RM, t) ==
  IF Have(RM[n], k[n], t) >= N - F
    THEN IF t = "R" THEN AfterR(n, RM) ELSE AfterP(n, RM)
    ELSE /\ pc' = [pc EXCEPT ![n] = IF t = "R" THEN "waitR" ELSE "waitP"]
         /\ i' = [i EXCEPT ![n] = 0]
         /\ roundMessages' = RM
         /\ UNCHANGED <<x, decided, k, majority, newValue, pMajority>>

\* one look of waitForMessages at the store, and what runConsensus does with it
Look(n, RM, t) ==
  IF killed[n]
    THEN /\ pc' = [pc EXCEPT ![n] = "done"]
         /\ i' = [i EXCEPT ![n] = 0]
         /\ roundMessages' = RM
         /\ UNCHANGED <<x, decided, k, majority, newValue, pMajority>>
    ELSE IF Have(RM[n], k[n], t) >= N - F
      THEN IF t = "R" THEN AfterR(n, RM) ELSE AfterP(n, RM)
      ELSE /\ pc' = [pc EXCEPT ![n] = IF t = "R" THEN "waitR" ELSE "waitP"]
           /\ i' = [i EXCEPT ![n] = 0]
           /\ roundMessages' = RM
           /\ UNCHANGED <<x, decided, k, majority, newValue, pMajority>>

Phase(n) == IF pc[n] \in {"bcastR", "waitR"} THEN "R" ELSE "P"

\* the message of the broadcast in progress
Outgoing(n) ==
  IF pc[n] = "bcastR"
    THEN Message("R", n, k[n], x[n])
    ELSE Message("P", n, k[n], newValue[n])

\* the rest of broadcast once the fetch to peer i has settled with store RM
FetchSettled(n, RM) ==
  IF i[n] + 1 < N
    THEN /\ i' = [i EXCEPT ![n] = i[n] + 1]
         /\ roundMessages' = RM
         /\ UNCHANGED <<x, decided, k, pc, majority, newValue, pMajority>>
    ELSE Look(n, RM, Phase(n))

\* the fetch to peer i is answered: the peer has run its /message handler
FetchDone(n) ==
  /\ pc[n] \in {"bcastR", "bcastP"}
  /\ FetchSettled(n, OnMessage(roundMessages, i[n], Outgoing(n)))
  /\ UNCHANGED <<cfg, killed, isRunning, launches, lost>>

\* the fetch to peer i throws and the catch swallows it
FetchFailed(n) ==
  /\ pc[n] \in {"bcastR", "bcastP"}
  /\ lost < MaxLost
  /\ lost' = lost + 1
  /\ FetchSettled(n, roundMessages)
  /\ UNCHANGED <<cfg, killed, isRunning, launches>>

\* a poll of waitForMessages after delay(POLLING_INTERVAL) that ends the wait:
\* the node is killed or the quorum is there
Poll(n) ==
  /\ pc[n] \in {"waitR", "waitP"}
  /\ killed[n] \/ Have(roundMessages[n], k[n], Phase(n)) >= N - F
  /\ Look(n, roundMessages, Phase(n))
  /\ UNCHANGED <<cfg, killed, isRunning, launches, lost>>

\* MAX_WAIT_TIME has elapsed without the quorum: the caller goes on with what is there
Timeout(n) ==
  /\ pc[n] \in {"waitR", "waitP"}
  /\ ~killed[n]
  /\ Have(roundMessages[n], k[n], Phase(n)) < N - F
  /\ IF Phase(n) = "R" THEN AfterR(n, roundMessages) ELSE AfterP(n, roundMessages)
  /\ UNCHANGED <<cfg, killed, isRunning, launches, lost>>

\* delay(5) at the end of an iteration is over
NextRound(n) ==
  /\ pc[n] = "sleep"
  /\ (~Truthy(decided[n]) /\ ~killed[n]) => k[n] <= horizon
  /\ LoopTop(n)
  /\ UNCHANGED <<cfg, killed, x, decided, k, roundMessages, isRunning, launches, lost>>

\* ---------------------------------------------------------------- handlers

\* /start without the tests of isFaulty
StartFaulty(n) ==
  IF killed[n] \/ isRunning[n]
    THEN UNCHANGED vars
    ELSE /\ isRunning' = [isRunning EXCEPT ![n] = TRUE]
         /\ launches' = [launches EXCEPT ![n] = launches[n] + 1]
         /\ LoopTop(n)
         /\ UNCHANGED <<cfg, killed, x, decided, k, roundMessages, lost>>

\* /start without the test of isRunning
StartRunning(n) ==
  IF isFaulty[n] \/ killed[n]
    THEN UNCHANGED vars
    ELSE /\ isRunning' = [isRunning EXCEPT ![n] = TRUE]
         /\ launches' = [launches EXCEPT ![n] = launches[n] + 1]
         /\ LoopTop(n)
         /\ UNCHANGED <<cfg, killed, x, decided, k, roundMessages, lost>>

\* GET /start
Start(n) ==
  IF isFaulty[n] \/ killed[n] \/ isRunning[n]
    THEN UNCHANGED vars
    ELSE /\ isRunning' = [isRunning EXCEPT ![n] = TRUE]
         /\ launches' = [launches EXCEPT ![n] = launches[n] + 1]
         /\ LoopTop(n)
         /\ UNCHANGED <<cfg, killed, x, decided, k, roundMessages, lost>>

\* /stop that also clears the decision
StopResets(n) ==
  /\ killed' = [killed EXCEPT ![n] = TRUE]
  /\ isRunning' = [isRunning EXCEPT ![n] = FALSE]
  /\ decided' = [decided EXCEPT ![n] = IF isFaulty[n] THEN DNull ELSE DFalse]
  /\ UNCHANGED <<cfg, x, k, roundMessages, pc, i, majority, newValue, pMajority,
                 launches, lost>>

\* GET /stop
Stop(n) ==
  /\ killed' = [killed EXCEPT ![n] = TRUE]
  /\ isRunning' = [isRunning EXCEPT ![n] = FALSE]
  /\ UNCHANGED <<cfg, x, decided, k, roundMessages, pc, i, majority, newValue, pMajority,
                 launches, lost>>

\* a call of findMajority on the arguments drawn at the start
CallFindMajority ==
  /\ ~fmCalled
  /\ fmCalled' = TRUE
  /\ fmResult' = findMajority(fmValues, fmMinCount)
  /\ UNCHANGED <<N, F, isFaulty, initialValue, horizon, killed, x, decided, k,
                 roundMessages, isRunning, pc, i, majority, newValue, pMajority,
                 launches, lost, fmValues, fmMinCount>>

\* a call of findMajority on the same votes with two neighbours exchanged
CallFindMajorityReordered ==
  /\ fmCalled
  /\ \E j \in 1 .. (Len(fmValues) - 1) :
       fmValues' = [fmValues EXCEPT ![j] = fmValues[j + 1], ![j + 1] = fmValues[j]]
  /\ fmResult' = findMajority(fmValues', fmMinCount)
  /\ UNCHANGED <<N, F, isFaulty, initialValue, horizon, killed, x, decided, k,
                 roundMessages, isRunning, pc, i, majority, newValue, pMajority,
                 launches, lost, fmMinCount, fmCalled>>

Driver(n) == FetchDone(n) \/ Poll(n) \/ Timeout(n) \/ NextRound(n)

Next ==
  \E n \in Nodes :
    \/ Start(n)
    \/ Stop(n)
    \/ FetchDone(n)
    \/ FetchFailed(n)
    \/ Poll(n)
    \/ Timeout(n)
    \/ NextRound(n)

\* every fetch is answered
NextReliable ==
  \E n \in Nodes :
    \/ Start(n)
    \/ Stop(n)
    \/ FetchDone(n)
    \/ Poll(n)
    \/ Timeout(n)
    \/ NextRound(n)

\* every fetch is answered and no node is killed
NextUnkilled ==
  \E n \in Nodes :
    \/ Start(n)
    \/ FetchDone(n)
    \/ Poll(n)
    \/ Timeout(n)
    \/ NextRound(n)

\* the orchestrator starts one node at a time, after the driver started before
\* has returned, and kills none
NextOneByOne ==
  \E n \in Nodes :
    \/ /\ \A m \in Nodes : pc[m] \in {"idle", "done"}
       /\ pc[n] = "idle"
       /\ Start(n)
    \/ FetchDone(n)
    \/ Timeout(n)
    \/ NextRound(n)

NextMajority == CallFindMajority \/ CallFindMajorityReordered

\* two nodes, no fault, initial values equal or different
Init ==
  /\ \E v \in Value :
       NodeInit(2, 0, [m \in 0 .. 1 |-> FALSE], [m \in 0 .. 1 |-> IF m = 0 THEN v ELSE 0])
  /\ horizon = MaxRound

Spec == Init /\ [][Next]_vars

\* three nodes of which node 2 is faulty, F = 1 (tolerated) or F = 2 (not tolerated)
InitFaulty ==
  /\ \E f \in 1 .. 2 :
       NodeInit(3, f, [m \in 0 .. 2 |-> m = 2],
                [m \in 0 .. 2 |-> IF m = 1 THEN 1 ELSE 0])
  /\ horizon = MaxRound

SpecFaulty == InitFaulty /\ [][NextReliable]_vars

\* the tolerated settings: two nodes without fault, with equal or different
\* initial values, or three nodes of which node 2 is faulty and F = 1
InitTolerated ==
  /\ \/ \E v \in Value :
          NodeInit(2, 0, [m \in 0 .. 1 |-> FALSE],
                   [m \in 0 .. 1 |-> IF m = 0 THEN v ELSE 0])
     \/ NodeInit(3, 1, [m \in 0 .. 2 |-> m = 2],
                 [m \in 0 .. 2 |-> IF m = 1 THEN 1 ELSE 0])
  /\ horizon = MaxRound

SpecTolerated == InitTolerated /\ [][NextReliable]_vars

\* two nodes, no fault, run up to the round of the forced decision
InitFull ==
  /\ \E init \in [0 .. 1 -> Value] :
       NodeInit(2, 0, [m \in 0 .. 1 |-> FALSE], init)
  /\ horizon = ForceRound + 1

SpecFull == InitFull /\ [][NextUnkilled]_vars

\* Scenario A: N = 4, F = 1, initial values [0,0,1,1]
InitScenarioA ==
  /\ NodeInit(4, 1, [m \in 0 .. 3 |-> FALSE], [m \in 0 .. 3 |-> IF m < 2 THEN 0 ELSE 1])
  /\ horizon = ForceRound + 1

SpecScenarioA == InitScenarioA /\ [][NextOneByOne]_vars

\* findMajority on its own: every binary sequence of at most MaxLen votes and
\* every threshold above half its length
InitMajority ==
  /\ N = 1 /\ F = 0 /\ horizon = 0
  /\ isFaulty = [m \in 0 .. 0 |-> FALSE]
  /\ initialValue = [m \in 0 .. 0 |-> 0]
  /\ killed = [m \in 0 .. 0 |-> FALSE]
  /\ x = [m \in 0 .. 0 |-> 0]
  /\ decided = [m \in 0 .. 0 |-> DFalse]
  /\ k = [m \in 0 .. 0 |-> 1]
  /\ roundMessages = [m \in 0 .. 0 |-> <<>>]
  /\ isRunning = [m \in 0 .. 0 |-> FALSE]
  /\ pc = [m \in 0 .. 0 |-> "idle"]
  /\ i = [m \in 0 .. 0 |-> 0]
  /\ majority = [m \in 0 .. 0 |-> Null]
  /\ newValue = [m \in 0 .. 0 |-> Null]
  /\ pMajority = [m \in 0 .. 0 |-> Null]
  /\ launches = [m \in 0 .. 0 |-> 0]
  /\ lost = 0
  /\ \E len \in 0 .. MaxLen :
       /\ fmValues \in [1 .. len -> Value]
       /\ fmMinCount \in ((len \div 2) + 1) .. (len + 1)
  /\ fmCalled = FALSE
  /\ fmResult = Null

SpecMajority == InitMajority /\ [][NextMajority]_vars

\* the driver of each node keeps being scheduled: a fetch is answered, a poll
\* delay and the delay at the end of a round elapse
InitLive ==
  /\ \E v \in Value :
       NodeInit(2, 0, [m \in 0 .. 1 |-> FALSE], [m \in 0 .. 1 |-> IF m = 0 THEN v ELSE 1])
  /\ horizon = ForceRound + 1

FairLive ==
  /\ InitLive
  /\ [][NextUnkilled]_vars
  /\ WF_vars(Driver(0))
  /\ WF_vars(Driver(1))

\* ------------------------------------------------------------------ claims

Sound(n) == n \in Nodes /\ ~isFaulty[n]

\* C1: any two non-faulty nodes that have both decided hold the same value x.
Agreement ==
  \A a, b \in Nodes :
    (Sound(a) /\ Sound(b) /\ decided[a] = DTrue /\ decided[b] = DTrue)
      => x[a] = x[b]

\* C2: if every non-faulty node starts with the same value v and F is within
\* the tolerance, every node that has decided holds v.
Validity ==
  \A v \in Value :
    ((\A n \in Nodes : ~isFaulty[n] => initialValue[n] = v) /\ F <= threshold)
      => \A n \in Nodes : decided[n] = DTrue => x[n] = v

\* C3: with F within the tolerance, a started non-faulty node that is not killed
\* eventually decides, and no node is past round 10 without having decided.
Termination ==
  /\ [](\A n \in Nodes :
          (Sound(n) /\ F <= threshold /\ k[n] > ForceRound) => decided[n] = DTrue)
  /\ \A n \in 0 .. 1 :
       (F <= threshold /\ Sound(n) /\ launches[n] > 0)
         ~> (decided[n] = DTrue \/ killed[n])

\* a node decided in round 10 by the forced decision, without a P-majority
TerminationWitness ==
  \E n \in Nodes :
    /\ decided[n] = DTrue
    /\ k[n] = ForceRound + 1
    /\ pMajority[n] = Null
    /\ ~killed[n]

\* C4: when F exceeds floor((N-1)/2) no node ever has decided = true.
NeverDecidedOverThreshold ==
  F > threshold => \A n \in Nodes : decided[n] # DTrue

\* a node has finished a round in which it saw a strict P-majority, with F = 2, N = 3
NeverDecidedWitness ==
  /\ F > threshold
  /\ \E n \in Nodes :
       pc[n] = "sleep" /\ pMajority[n] # Null /\ k[n] > 1 /\ decided[n] = DFalse

\* node n issues a fetch in this step: it enters, or moves on in, a broadcast
Sends(n) ==
  /\ pc'[n] \in {"bcastR", "bcastP"}
  /\ <<pc[n], i[n], k[n]>> # <<pc'[n], i'[n], k'[n]>>

\* C5: once killed is true the node sends no further message to any peer.
NoSendAfterKill == [][\A n \in Nodes : killed[n] => ~Sends(n)]_vars

\* C6: once killed is true, killed stays true and k, decided and x never change.
KillFreezes ==
  [][\A n \in Nodes :
       killed[n] => /\ killed'[n]
                    /\ k'[n] = k[n]
                    /\ decided'[n] = decided[n]
                    /\ x'[n] = x[n]]_vars

\* a driver that was waiting when the kill came has seen it and returned undecided
KillFreezesWitness ==
  \E n \in Nodes :
    killed[n] /\ launches[n] = 1 /\ pc[n] = "done" /\ decided[n] = DFalse

\* C7: a faulty node never runs the driver, never sends, answers the status
\* probe as non-live, and its x, decided and k stay null.
FaultyInert ==
  \A n \in Nodes :
    isFaulty[n] => /\ launches[n] = 0
                   /\ pc[n] = "idle"
                   /\ Status(n) = "faulty"
                   /\ x[n] = Null
                   /\ decided[n] = DNull
                   /\ k[n] = Null

\* a faulty node has been stopped while its peers have finished a round of
\* broadcasts that reached it
FaultyInertWitness ==
  \E n, m \in Nodes : isFaulty[n] /\ killed[n] /\ ~isFaulty[m] /\ k[m] > 1

\* C8: no driver is launched on a node that is faulty, killed or already
\* running, so a node launches at most one driver.
StartOnce ==
  [][\A n \in Nodes :
       launches'[n] # launches[n]
         => /\ ~isFaulty[n] /\ ~killed[n] /\ ~isRunning[n]
            /\ launches[n] = 0]_vars

\* a node that ran its driver and was then stopped: isRunning is false again
StartOnceWitness ==
  \E n \in Nodes : launches[n] = 1 /\ killed[n] /\ ~isRunning[n] /\ pc[n] = "done"

\* C9: for a non-faulty node decided, once true, is never written back.
DecidedMonotone ==
  [][\A n \in Nodes :
       (~isFaulty[n] /\ decided[n] = DTrue) => decided'[n] = DTrue]_vars

\* a node has decided, its driver has returned and it has then been stopped
DecidedMonotoneWitness ==
  \E n \in Nodes : decided[n] = DTrue /\ pc[n] = "done" /\ killed[n]

\* C10: in Scenario A, when all four nodes have decided they hold the same value.
ScenarioADecidesOneValue ==
  (\A n \in Nodes : decided[n] = DTrue) => \A a, b \in Nodes : x[a] = x[b]

\* C11: the store of a node that is faulty, killed or decided is left as it is
\* by every step, a delivery included, and every delivery is answered OK.
DeliveryGuard ==
  /\ [](\A n \in Nodes : OnMessageReply(n) = "OK")
  /\ [][\A n \in Nodes :
          (isFaulty[n] \/ killed[n] \/ decided[n] = DTrue)
            => roundMessages'[n] = roundMessages[n]]_vars

\* a peer has finished the phase-R broadcast of the round after the one node n
\* decided in, and node n holds nothing of that round
DeliveryGuardWitness ==
  \E n, m \in Nodes :
    /\ decided[n] = DTrue
    /\ ~isFaulty[m]
    /\ k[m] = k[n]
    /\ pc[m] \in {"waitR", "bcastP", "waitP"}
    /\ k[m] \notin DOMAIN roundMessages[n]

\* the messages of round r and phase t anywhere in the store rm that carry v
RECURSIVE CountSeq(_, _, _, _)
CountSeq(s, r, t, v) ==
  IF s = <<>> THEN 0
  ELSE (IF Head(s).k = r /\ Head(s).type = t /\ Head(s).value = v THEN 1 ELSE 0)
       + CountSeq(Tail(s), r, t, v)

RECURSIVE CountStore(_, _, _, _, _)
CountStore(rm, keys, r, t, v) ==
  IF keys = {} THEN 0
  ELSE LET b == CHOOSE c \in keys : TRUE
       IN CountSeq(rm[b], r, t, v) + CountStore(rm, keys \ {b}, r, t, v)

\* the strict majority among the messages whose round field is r
MajorityOfRound(rm, r, t) ==
  IF CountStore(rm, DOMAIN rm, r, t, 0) >= (N \div 2) + 1 THEN 0
  ELSE IF CountStore(rm, DOMAIN rm, r, t, 1) >= (N \div 2) + 1 THEN 1
  ELSE Null

\* C12: the R-majority and the P-majority a node computes in its round are
\* those of the messages whose round field is that round, whatever else the
\* store holds; and every message lies under its own round.
RoundIsolation ==
  /\ [](\A n \in Nodes : \A r \in DOMAIN roundMessages[n] :
          \A j \in 1 .. Len(roundMessages[n][r]) : roundMessages[n][r][j].k = r)
  /\ [][\A n \in Nodes :
          /\ (pc[n] = "waitR" /\ pc'[n] = "bcastP")
               => majority'[n] = MajorityOfRound(roundMessages[n], k[n], "R")
          /\ (pc[n] = "waitP" /\ pc'[n] = "sleep")
               => pMajority'[n] = MajorityOfRound(roundMessages[n], k[n], "P")]_vars

\* a node in phase P of round 2 whose store holds messages of round 1 again
RoundIsolationWitness ==
  \E n \in Nodes :
    k[n] = 2 /\ pc[n] \in {"bcastP", "waitP"} /\ 1 \in DOMAIN roundMessages[n]

\* C13: a non-faulty node holds no message of a round below its round counter.
FullyEvicted ==
  \A n \in Nodes :
    ~isFaulty[n] =>
      \A r \in DOMAIN roundMessages[n] :
        \A j \in 1 .. Len(roundMessages[n][r]) : roundMessages[n][r][j].k >= k[n]

\* the occurrences of v in s, counted element by element
RECURSIVE Occurrences(_, _)
Occurrences(s, v) ==
  IF s = <<>> THEN 0
  ELSE (IF Head(s) = v THEN 1 ELSE 0) + Occurrences(Tail(s), v)

\* C14: for a binary sequence and a threshold above half its length findMajority
\* returns 0, 1 or null, returns v exactly when v occurs at least threshold
\* times, and returns the same for every reordering of the sequence.
MajorityCorrect ==
  /\ [](fmCalled =>
          /\ fmResult \in {0, 1, Null}
          /\ \A v \in Value :
               fmResult = v <=> Occurrences(fmValues, v) >= fmMinCount)
  /\ [][fmCalled => fmResult' = fmResult]_vars

\* a call answered 1 on votes that hold both values, after a reordering
MajorityCorrectWitness ==
  /\ fmCalled
  /\ fmResult = 1
  /\ Occurrences(fmValues, 0) > 0
  /\ Len(fmValues) = MaxLen
  /\ fmValues[1] = 1 /\ fmValues[2] = 0

\* the step that ends a round of node n: the decision has just been made
RoundEnds(n) == pc[n] \in {"bcastP", "waitP"} /\ pc'[n] = "sleep"

\* C15: with F within the threshold and before round 10, a node ending a round
\* decides the P-majority exactly when floor(N/2)+1 equal P values of the round
\* are in its store; otherwise it takes the proposal it broadcast in phase P and
\* stays undecided.
DecisionRule ==
  [][\A n \in Nodes :
       (RoundEnds(n) /\ F <= threshold /\ k[n] < ForceRound) =>
          /\ pMajority'[n] # Null => (decided'[n] = DTrue /\ x'[n] = pMajority'[n])
          /\ pMajority'[n] = Null => (decided'[n] = DFalse /\ x'[n] = newValue[n])
          /\ pc[n] = "waitP" =>
               /\ pMajority'[n] = MajorityOfRound(roundMessages[n], k[n], "P")
               /\ decided'[n] = DTrue <=>
                    \E v \in Value :
                      CountStore(roundMessages[n], DOMAIN roundMessages[n],
                                 k[n], "P", v) >= (N \div 2) + 1]_vars

\* a node has ended a round without a P-majority and holds its proposal, which
\* is not the value it started with; another has decided on a P-majority
DecisionRuleWitness ==
  /\ F <= threshold
  /\ \E n \in Nodes :
       /\ pc[n] = "sleep" /\ pMajority[n] = Null /\ decided[n] = DFalse
       /\ x[n] = newValue[n] /\ x[n] # initialValue[n]
  /\ \E n \in Nodes :
       pc[n] = "sleep" /\ pMajority[n] # Null /\ decided[n] = DTrue

\* C16: with F within the threshold a node past round 10 has decided, no node
\* is in a round above 10, and no stored message has a round field above 10.
RoundsBounded ==
  F <= threshold =>
    \A n \in Nodes :
      ~isFaulty[n] =>
        /\ k[n] > ForceRound => decided[n] = DTrue
        /\ k[n] <= ForceRound + 1
        /\ pc[n] \in {"bcastR", "waitR", "bcastP", "waitP"} => k[n] <= ForceRound
        /\ \A r \in DOMAIN roundMessages[n] :
             \A j \in 1 .. Len(roundMessages[n][r]) :
               roundMessages[n][r][j].k <= ForceRound

\* a node has ended round 10 without a P-majority and its driver has left the loop
RoundsBoundedWitness ==
  \E n \in Nodes :
    /\ k[n] = ForceRound + 1
    /\ pMajority[n] = Null
    /\ x[n] = ForceRound % 2
    /\ pc[n] = "done"
    /\ decided[n] = DTrue

\* C17: the round counter of a non-faulty node starts at 1 and changes only by
\* +1, in the step that ends a round after both of its phases.
RoundCounter ==
  /\ \A n \in Nodes : ~isFaulty[n] => k[n] = 1
  /\ [][\A n \in Nodes :
          k'[n] # k[n] =>
            /\ ~isFaulty[n]
            /\ k'[n] = k[n] + 1
            /\ pc'[n] = "sleep"
            /\ pc[n] = "waitP" \/ (pc[n] = "bcastP" /\ i[n] = N - 1)
            /\ newValue[n] # Null]_vars

\* a node has ended two rounds
RoundCounterWitness ==
  \E n \in Nodes : k[n] = 3 /\ pc[n] = "sleep" /\ newValue[n] # Null

\* the round the locals majority, newValue and pMajority of node n belong to
LocalRound(n) == IF pc[n] = "sleep" THEN k[n] - 1 ELSE k[n]

\* C18: the non-faulty nodes that find a strict R-majority in a round find the
\* same value, and a phase-P message of that round carries that value or the
\* tie-break value of the round.
OneMajority ==
  \A a \in Nodes :
    (~isFaulty[a] /\ majority[a] # Null) =>
      /\ \A b \in Nodes :
           (~isFaulty[b] /\ majority[b] # Null /\ LocalRound(b) = LocalRound(a))
             => majority[b] = majority[a]
      /\ \A n \in Nodes : \A r \in DOMAIN roundMessages[n] :
           \A j \in 1 .. Len(roundMessages[n][r]) :
             LET m == roundMessages[n][r][j]
             IN (m.type = "P" /\ m.k = LocalRound(a))
                  => m.value \in {majority[a], m.k % 2}

\* a node found a majority that is not the tie-break value of its round while
\* another node of the same round found none and proposed the tie-break value
OneMajorityWitness ==
  \E a, b \in Nodes :
    /\ majority[a] # Null /\ majority[a] # LocalRound(a) % 2
    /\ LocalRound(b) = LocalRound(a)
    /\ majority[b] = Null /\ newValue[b] = LocalRound(b) % 2

\* C19: once a non-faulty node has decided, no step changes its x.
Irrevocable ==
  [][\A n \in Nodes :
       (~isFaulty[n] /\ decided[n] = DTrue) => x'[n] = x[n]]_vars

\* a node has decided a value other than the one it started with, its driver
\* has returned, and it still counts as running, so that /start does nothing
IrrevocableWitness ==
  \E n \in Nodes :
    /\ decided[n] = DTrue /\ x[n] # initialValue[n]
    /\ pc[n] = "done" /\ isRunning[n] /\ ~killed[n] /\ launches[n] = 1

\* C20: a store holds at most one message per sender, round and phase, at most
\* N per round and phase, and the R of a sender and round before its P.
OnePerPhase ==
  \A n \in Nodes : \A r \in DOMAIN roundMessages[n] :
    LET b == roundMessages[n][r]
    IN /\ \A j1, j2 \in 1 .. Len(b) :
            (b[j1].nodeId = b[j2].nodeId /\ b[j1].type = b[j2].type
               /\ b[j1].k = b[j2].k) => j1 = j2
       /\ \A t \in {"R", "P"} : Len(FilterType(b, t)) <= N
       /\ \A j1, j2 \in 1 .. Len(b) :
            (b[j1].nodeId = b[j2].nodeId /\ b[j1].type = "R" /\ b[j2].type = "P")
              => j1 < j2

\* a store holds the R and the P of two senders for one round
OnePerPhaseWitness ==
  \E n \in Nodes : \E r \in DOMAIN roundMessages[n] :
    /\ Len(roundMessages[n][r]) = 4
    /\ Len(FilterType(roundMessages[n][r], "R")) = 2

====
